---- MODULE Spec2Model ----
(***************************************************************************)
(* Samruddhi pipe cutting planner: run_cutting_plan (single size),         *)
(* run_multi_size_plan (multi size) and the index handler that applies     *)
(* their inventory mutations to the leftovers table (app.py, db.py).       *)
(*                                                                         *)
(* Lengths inside the planner are Python floats rounded to 2 decimals;     *)
(* they are modelled as integers counting hundredths of a millimetre.      *)
(* Lengths as submitted (before round(x, 2)) count thousandths of a        *)
(* millimetre.  Arithmetic on the rounded values is exact.                 *)
(***************************************************************************)
EXTENDS Integers, Sequences, FiniteSets, TLC

\* ----------------------------------------------------------------- constants
\* app.py:17-37, in millimetres
STANDARD_RAW_LENGTH_MM == 3600
KERF_MM == 3
SCRAP_SAVE_THRESHOLD_MM == 100
SCRAP_USABLE_MIN_MM == 350
LAST_PIPE_SCRAP_MAX_MM == 75

\* round(x, 2): the planner keeps 10^2 units per millimetre
Scale == 100
\* a millimetre constant as a planner length (hundredths)
H(mm) == mm * Scale
\* a millimetre value as a submitted length (thousandths)
MM(mm) == mm * Scale * 10

\* Python's None for a leftover id; AUTOINCREMENT ids start at 1
None == 0

\* ----------------------------------------------------------------- bounds
\* largest quantity a request asks for
MaxQty == 3

\* ----------------------------------------------------------------- helpers
\* round(float(x), 2) of a value given in thousandths: the nearest hundredth,
\* ties to the even hundredth
Round2(t) ==
    LET q == t \div 10
        r == t % 10
    IN  IF r > 5 \/ (r = 5 /\ q % 2 = 1) THEN q + 1 ELSE q

RECURSIVE SumSeq(_)
SumSeq(s) == IF s = <<>> THEN 0 ELSE Head(s) + SumSeq(Tail(s))

Last(s) == s[Len(s)]

\* [x] * n
Repeat(x, n) == [i \in 1..n |-> x]

RECURSIVE Reverse(_)
Reverse(s) == IF s = <<>> THEN <<>> ELSE Append(Reverse(Tail(s)), Head(s))

\* insert x into the ascending sequence s, after the elements equal to it
RECURSIVE InsertAsc(_, _)
InsertAsc(x, s) ==
    IF s = <<>> THEN <<x>>
    ELSE IF x < Head(s) THEN <<x>> \o s
    ELSE <<Head(s)>> \o InsertAsc(x, Tail(s))

\* sorted(s)
RECURSIVE SortedAsc(_)
SortedAsc(s) == IF s = <<>> THEN <<>> ELSE InsertAsc(Last(s), SortedAsc(SubSeq(s, 1, Len(s) - 1)))

\* s.sort(reverse=True)
SortedDesc(s) == Reverse(SortedAsc(s))

\* ----------------------------------------------------------------- state
Requests == {"r1", "r2"}

VARIABLES
    db,      \* the leftovers table: a set of rows [id, length]
    nextId,  \* the table's AUTOINCREMENT counter
    form,    \* per request: what was submitted
    pc,      \* per request: where its handler stands
    s,       \* per request: the locals of run_cutting_plan
    m        \* per request: the locals of run_multi_size_plan and of index's multi branch

vars == <<db, nextId, form, pc, s, m>>

\* ----------------------------------------------------------------- db.py
\* SELECT id, length FROM leftovers ORDER BY length DESC: any order of the rows
\* that is descending by length (rows of equal length come in either order)
get_leftovers_sorted(rows) ==
    LET n == Cardinality(rows)
    IN  { q \in [1..n -> rows] :
            /\ \A i, j \in 1..n : i # j => q[i] # q[j]
            /\ \A i, j \in 1..n : i < j => q[i].length >= q[j].length }

\* DELETE FROM leftovers WHERE id = ?
delete_leftover(rows, lid) == { row \in rows : row.id # lid }

\* INSERT INTO leftovers (length) VALUES (round(length, 2))
insert_leftover(rows, id, length) == rows \cup { [id |-> id, length |-> Round2(length * 10)] }

\* DELETE FROM leftovers WHERE id IN (...)
delete_leftovers_batch(rows, ids) == { row \in rows : \A i \in 1..Len(ids) : row.id # ids[i] }

\* one INSERT per length, in order, in one transaction
RECURSIVE insert_leftovers_batch(_, _, _)
insert_leftovers_batch(rows, id, lengths) ==
    IF lengths = <<>> THEN rows
    ELSE insert_leftovers_batch(insert_leftover(rows, id, Head(lengths)), id + 1, Tail(lengths))

\* ----------------------------------------------------------------- run_cutting_plan
EmptySingle ==
    [ cut_length |-> 0, raw_material_length |-> 0, quantity_required |-> 0,
      leftovers |-> <<>>, leftover_index |-> 0, scrap_to_save |-> <<>>, segments |-> <<>>,
      used_leftover_ids |-> <<>>, used_leftover |-> FALSE, pieces_from_current |-> 0,
      source_initial_length |-> 0, current_source |-> "", current_leftover_id |-> None,
      available_length |-> 0, suggested_raw |-> None, di |-> 1, ii |-> 1,
      pieces_produced |-> 0, material_used |-> 0 ]

\* needed_per_cut = cut_length + KERF_MM
needed_per_cut(cut_length) == cut_length + H(KERF_MM)

\* next_source() taking the next leftover whatever its length
next_source_NoFitCheck(leftovers, leftover_index, needed, raw_material_length) ==
    IF leftover_index < Len(leftovers)
    THEN LET row == leftovers[leftover_index + 1]
         IN  [ length |-> row.length, source |-> "Leftover", id |-> row.id,
               leftover_index |-> leftover_index + 1 ]
    ELSE [ length |-> raw_material_length, source |-> "Raw pipe", id |-> None,
           leftover_index |-> leftover_index ]

\* next_source() offering no raw pipe once the leftovers are exhausted
RECURSIVE next_source_NoRaw(_, _, _, _)
next_source_NoRaw(leftovers, leftover_index, needed, raw_material_length) ==
    IF leftover_index < Len(leftovers)
    THEN LET row == leftovers[leftover_index + 1]
         IN  IF row.length >= needed
             THEN [ length |-> row.length, source |-> "Leftover", id |-> row.id,
                    leftover_index |-> leftover_index + 1 ]
             ELSE next_source_NoRaw(leftovers, leftover_index + 1, needed, raw_material_length)
    ELSE [ length |-> 0, source |-> "Raw pipe", id |-> None, leftover_index |-> leftover_index ]

\* next_source(): the next leftover from leftover_index on that fits one cut, else a raw pipe
RECURSIVE next_source(_, _, _, _)
next_source(leftovers, leftover_index, needed, raw_material_length) ==
    IF leftover_index < Len(leftovers)
    THEN LET row == leftovers[leftover_index + 1]
         IN  IF row.length >= needed
             THEN [ length |-> row.length, source |-> "Leftover", id |-> row.id,
                    leftover_index |-> leftover_index + 1 ]
             ELSE next_source(leftovers, leftover_index + 1, needed, raw_material_length)
    ELSE [ length |-> raw_material_length, source |-> "Raw pipe", id |-> None,
           leftover_index |-> leftover_index ]

Segment(f, remaining) ==
    [ source |-> f.current_source, source_length |-> f.source_initial_length,
      pieces |-> f.pieces_from_current, cut_length |-> f.cut_length, remaining |-> remaining ]

\* where the handler goes once the plan is computed: the deletes, the inserts, the return
AfterPlan(f) ==
    IF f.di <= Len(f.used_leftover_ids) THEN "ss_delete"
    ELSE IF f.ii <= Len(f.scrap_to_save) THEN "ss_insert"
    ELSE "ss_return"

\* the early return tested on the cut length alone
EmptyPlanInput_CutOnly(cut_length, quantity_required) == cut_length <= 0

\* run_cutting_plan 250: the inputs of the empty plan
EmptyPlanInput(cut_length, quantity_required) == cut_length <= 0 \/ quantity_required <= 0

\* index's single-size branch (400-408) or a direct call, then run_cutting_plan 246-258
StartSingle(r) ==
    /\ pc[r] = "idle"
    /\ form[r].kind = "single"
    /\ LET cut_length == Round2(form[r].cut_length)
           raw_material_length == Round2(form[r].raw_length)
           quantity_required == form[r].quantity_required
           called == \/ form[r].via = "direct"
                     \/ (form[r].raw_length > 0 /\ form[r].cut_length > 0
                           /\ form[r].quantity_required > 0)
       IN  IF ~called
           THEN /\ pc' = [pc EXCEPT ![r] = "done_nocall"]
                /\ s' = s
           ELSE IF EmptyPlanInput(cut_length, quantity_required)
           THEN /\ pc' = [pc EXCEPT ![r] = "done"]
                /\ s' = [s EXCEPT ![r] = [EmptySingle EXCEPT !.cut_length = cut_length,
                              !.raw_material_length = raw_material_length,
                              !.quantity_required = quantity_required]]
           ELSE /\ pc' = [pc EXCEPT ![r] = "ss_read"]
                /\ s' = [s EXCEPT ![r] = [EmptySingle EXCEPT !.cut_length = cut_length,
                              !.raw_material_length = raw_material_length,
                              !.quantity_required = quantity_required]]
    /\ UNCHANGED <<db, nextId, form, m>>

\* run_cutting_plan 260-285: read the inventory, take the first source
ReadLeftovers(r) ==
    /\ pc[r] = "ss_read"
    /\ \E leftovers \in get_leftovers_sorted(db) :
         LET f == s[r]
             src == next_source(leftovers, 0, needed_per_cut(f.cut_length), f.raw_material_length)
         IN  s' = [s EXCEPT ![r] = [f EXCEPT !.leftovers = leftovers,
                       !.leftover_index = src.leftover_index,
                       !.available_length = src.length,
                       !.current_source = src.source,
                       !.current_leftover_id = src.id,
                       !.source_initial_length = src.length]]
    /\ pc' = [pc EXCEPT ![r] = "ss_loop"]
    /\ UNCHANGED <<db, nextId, form, m>>

\* run_cutting_plan 287-292: cut one piece from the current source
CutPiece(r) ==
    /\ pc[r] = "ss_loop"
    /\ LET f == s[r]
       IN  /\ f.quantity_required > 0 /\ f.cut_length > 0
           /\ f.available_length >= needed_per_cut(f.cut_length)
           /\ s' = [s EXCEPT ![r] = [f EXCEPT
                       !.pieces_from_current = f.pieces_from_current + 1,
                       !.quantity_required = f.quantity_required - 1,
                       !.available_length = f.available_length - needed_per_cut(f.cut_length)]]
    /\ UNCHANGED <<db, nextId, form, pc, m>>

\* run_cutting_plan 295-311: the locals once the current source is closed and the
\* next one taken
ClosedSource(f) ==
    LET remaining == f.available_length
        src == next_source(f.leftovers, f.leftover_index, needed_per_cut(f.cut_length),
                           f.raw_material_length)
    IN  [f EXCEPT
           !.segments = IF f.pieces_from_current > 0 \/ remaining > 0
                        THEN Append(f.segments, Segment(f, remaining))
                        ELSE f.segments,
           !.scrap_to_save = IF remaining >= H(SCRAP_SAVE_THRESHOLD_MM)
                             THEN Append(f.scrap_to_save, remaining)
                             ELSE f.scrap_to_save,
           !.used_leftover_ids = IF f.current_leftover_id # None
                                 THEN Append(f.used_leftover_ids, f.current_leftover_id)
                                 ELSE f.used_leftover_ids,
           !.used_leftover = f.used_leftover \/ f.current_leftover_id # None,
           !.pieces_from_current = 0,
           !.leftover_index = src.leftover_index,
           !.available_length = src.length,
           !.current_source = src.source,
           !.current_leftover_id = src.id,
           !.source_initial_length = src.length]

\* CloseSource deleting the closed leftover from the table at once, inside the loop
CloseSource_DeletesAtOnce(r) ==
    /\ pc[r] = "ss_loop"
    /\ LET f == s[r]
           needed == needed_per_cut(f.cut_length)
       IN  /\ f.quantity_required > 0 /\ f.cut_length > 0
           /\ f.available_length < needed
           /\ s' = [s EXCEPT ![r] = ClosedSource(f)]
           /\ db' = delete_leftover(db, f.current_leftover_id)
           /\ pc' = [pc EXCEPT ![r] = IF ClosedSource(f).available_length < needed
                                      THEN "ss_final" ELSE "ss_loop"]
    /\ UNCHANGED <<nextId, form, m>>

\* run_cutting_plan 293-313: close the current source and move to the next
CloseSource(r) ==
    /\ pc[r] = "ss_loop"
    /\ LET f == s[r]
           needed == needed_per_cut(f.cut_length)
       IN  /\ f.quantity_required > 0 /\ f.cut_length > 0
           /\ f.available_length < needed
           /\ s' = [s EXCEPT ![r] = ClosedSource(f)]
           \* 312-313: no source fits a cut any more
           /\ pc' = [pc EXCEPT ![r] = IF ClosedSource(f).available_length < needed
                                      THEN "ss_final" ELSE "ss_loop"]
    /\ UNCHANGED <<db, nextId, form, m>>

\* run_cutting_plan 287 (the loop ends) and 315-334: the final segment, the suggestion
FinishSingle(r) ==
    /\ pc[r] \in {"ss_loop", "ss_final"}
    /\ LET f == s[r]
           remaining == f.available_length
           met == f.quantity_required = 0
           segments == IF met THEN Append(f.segments, Segment(f, remaining)) ELSE f.segments
           g == [f EXCEPT
                   !.segments = segments,
                   !.scrap_to_save = IF met /\ remaining >= H(SCRAP_SAVE_THRESHOLD_MM)
                                     THEN Append(f.scrap_to_save, remaining)
                                     ELSE f.scrap_to_save,
                   !.used_leftover_ids = IF met /\ f.current_leftover_id # None
                                         THEN Append(f.used_leftover_ids, f.current_leftover_id)
                                         ELSE f.used_leftover_ids,
                   !.used_leftover = f.used_leftover \/ (met /\ f.current_leftover_id # None),
                   !.suggested_raw = IF /\ segments # <<>>
                                        /\ Last(segments).source = "Raw pipe"
                                        /\ Last(segments).remaining > 0
                                     THEN Last(segments).remaining ELSE None]
       IN  /\ pc[r] = "ss_loop" => ~(f.quantity_required > 0 /\ f.cut_length > 0)
           /\ s' = [s EXCEPT ![r] = g]
           /\ pc' = [pc EXCEPT ![r] = AfterPlan(g)]
    /\ UNCHANGED <<db, nextId, form, m>>

\* run_cutting_plan 336-337: one delete_leftover call
DeleteUsed(r) ==
    /\ pc[r] = "ss_delete"
    /\ LET f == s[r]
           g == [f EXCEPT !.di = f.di + 1]
       IN  /\ db' = delete_leftover(db, f.used_leftover_ids[f.di])
           /\ s' = [s EXCEPT ![r] = g]
           /\ pc' = [pc EXCEPT ![r] = AfterPlan(g)]
    /\ UNCHANGED <<nextId, form, m>>

\* run_cutting_plan 338-339: one insert_leftover call
InsertScrap(r) ==
    /\ pc[r] = "ss_insert"
    /\ LET f == s[r]
           g == [f EXCEPT !.ii = f.ii + 1]
       IN  /\ db' = insert_leftover(db, nextId, f.scrap_to_save[f.ii])
           /\ nextId' = nextId + 1
           /\ s' = [s EXCEPT ![r] = g]
           /\ pc' = [pc EXCEPT ![r] = AfterPlan(g)]
    /\ UNCHANGED <<form, m>>

\* run_cutting_plan 341-355: the totals of the returned plan
ReturnSingle(r) ==
    /\ pc[r] = "ss_return"
    /\ LET f == s[r]
           total_pieces == SumSeq([i \in 1..Len(f.segments) |-> f.segments[i].pieces])
       IN  s' = [s EXCEPT ![r] = [f EXCEPT !.pieces_produced = total_pieces,
                     !.material_used = total_pieces * f.cut_length]]
    /\ pc' = [pc EXCEPT ![r] = "done"]
    /\ UNCHANGED <<db, nextId, form, m>>

\* ----------------------------------------------------------------- run_multi_size_plan
EmptyMulti ==
    [ inventory |-> <<>>, flat |-> <<>>, fi |-> 0, pipes |-> <<>>, move_count |-> 0,
      new_pipes |-> <<>>, out |-> <<>>, total_pipes |-> 0, total_used |-> 0,
      total_scrap |-> 0, total_kerf |-> 0, last_pipe_over_limit |-> FALSE,
      ids_to_delete |-> <<>>, scrap_to_insert |-> <<>> ]

\* classify_scrap_mm
classify_scrap_mm(scrap_mm) ==
    IF scrap_mm >= H(SCRAP_USABLE_MIN_MM) THEN "USABLE" ELSE "NOT USABLE"

\* _is_remaining_usable
is_remaining_usable(remaining) == remaining >= H(SCRAP_USABLE_MIN_MM)

\* index 370-379: the submitted pairs, rounded, the non-positive ones left out
RECURSIVE IndexPairs(_)
IndexPairs(reqs) ==
    IF reqs = <<>> THEN <<>>
    ELSE LET cv == Round2(Head(reqs)[1])
             qv == Head(reqs)[2]
         IN  (IF cv > 0 /\ qv > 0 THEN << <<cv * 10, qv>> >> ELSE <<>>) \o IndexPairs(Tail(reqs))

\* run_multi_size_plan 77-83: the flat list of cuts, before the sort
RECURSIVE Expand(_)
Expand(reqs) ==
    IF reqs = <<>> THEN <<>>
    ELSE LET L == Round2(Head(reqs)[1])
             n == Head(reqs)[2]
         IN  (IF L <= 0 \/ n <= 0 THEN <<>> ELSE Repeat(L, n)) \o Expand(Tail(reqs))

\* run_multi_size_plan 96-107: one pipe per leftover of positive length
RECURSIVE SeedPipes(_)
SeedPipes(leftovers) ==
    IF leftovers = <<>> THEN <<>>
    ELSE LET length_mm == Round2(Head(leftovers).length * 10)
         IN  (IF length_mm <= 0 THEN <<>>
              ELSE << [ remaining |-> length_mm, cuts |-> <<>>, is_leftover |-> TRUE,
                        leftover_id |-> Head(leftovers).id, capacity |-> length_mm ] >>)
             \o SeedPipes(Tail(leftovers))

\* a new raw pipe whose first cut is charged no kerf
NewRawPipe_NoKerf(cut) ==
    [ remaining |-> H(STANDARD_RAW_LENGTH_MM) - cut, cuts |-> <<cut>>,
      is_leftover |-> FALSE, leftover_id |-> None, capacity |-> H(STANDARD_RAW_LENGTH_MM) ]

\* run_multi_size_plan 143-149 and 185-191: a new raw pipe holding one cut
NewRawPipe(cut) ==
    [ remaining |-> H(STANDARD_RAW_LENGTH_MM) - (cut + H(KERF_MM)), cuts |-> <<cut>>,
      is_leftover |-> FALSE, leftover_id |-> None, capacity |-> H(STANDARD_RAW_LENGTH_MM) ]

\* the search list without the preference for leftovers
search_list_NoPriority(pipes, needed) ==
    { i \in 1..Len(pipes) : pipes[i].remaining >= needed }

\* run_multi_size_plan 115-118: the pipes (by position) searched for a cut
search_list(pipes, needed) ==
    LET candidates == { i \in 1..Len(pipes) : pipes[i].remaining >= needed }
        leftover_candidates == { i \in candidates : pipes[i].is_leftover }
    IN  IF leftover_candidates # {} THEN leftover_candidates ELSE candidates

\* run_multi_size_plan 128-132: the future-usability guard skips this pipe
GuardSkips(p, needed) ==
    /\ ~p.is_leftover
    /\ p.cuts # <<>>
    /\ is_remaining_usable(p.remaining)
    /\ ~is_remaining_usable(p.remaining - needed)

\* best_pipe chosen without the future-usability guard
best_pipe_NoGuard(pipes, needed) ==
    LET eligible == { i \in search_list(pipes, needed) : pipes[i].remaining >= needed }
    IN  IF eligible = {} THEN 0
        ELSE CHOOSE i \in eligible : \A j \in eligible :
                \/ pipes[i].remaining < pipes[j].remaining
                \/ (pipes[i].remaining = pipes[j].remaining /\ i <= j)

\* run_multi_size_plan 120-136: the position of best_pipe, 0 for None; the first
\* pipe of the search list with the least rem_after
best_pipe(pipes, needed) ==
    LET eligible == { i \in search_list(pipes, needed) :
                        pipes[i].remaining >= needed /\ ~GuardSkips(pipes[i], needed) }
    IN  IF eligible = {} THEN 0
        ELSE CHOOSE i \in eligible : \A j \in eligible :
                \/ pipes[i].remaining < pipes[j].remaining
                \/ (pipes[i].remaining = pipes[j].remaining /\ i <= j)

\* a placement that opens no pipe: a cut no pipe takes is left out
PlaceOne_NoNewPipe(pipes, cut) ==
    LET needed == cut + H(KERF_MM)
        b == best_pipe(pipes, needed)
    IN  IF b # 0
        THEN [pipes EXCEPT ![b] = [@ EXCEPT !.cuts = Append(@, cut),
                                            !.remaining = pipes[b].remaining - needed]]
        ELSE pipes

\* run_multi_size_plan 110-149: the pipes after placing one cut
PlaceOne(pipes, cut) ==
    LET needed == cut + H(KERF_MM)
        b == best_pipe(pipes, needed)
    IN  IF b # 0
        THEN [pipes EXCEPT ![b] = [@ EXCEPT !.cuts = Append(@, cut),
                                            !.remaining = pipes[b].remaining - needed]]
        ELSE Append(pipes, NewRawPipe(cut))

\* run_multi_size_plan 159-164: the last pipe's remainder if it kept cuts_sorted[i:]
KeptRemaining(last, cuts_sorted, i) ==
    LET kept == SubSeq(cuts_sorted, i + 1, Len(cuts_sorted))
    IN  IF kept = <<>> THEN last.capacity
        ELSE last.capacity - (SumSeq(kept) + Len(kept) * H(KERF_MM))

\* run_multi_size_plan 157-167: how many of the smallest cuts to move, 0 for none
MoveCount(last) ==
    LET cuts_sorted == SortedAsc(last.cuts)
        hits == { i \in 1..Len(cuts_sorted) :
                    KeptRemaining(last, cuts_sorted, i) <= H(LAST_PIPE_SCRAP_MAX_MM) }
    IN  IF hits = {} THEN 0 ELSE CHOOSE i \in hits : \A j \in hits : i <= j

\* run_multi_size_plan 178-191: first fit of one moved cut into the new pipes
RECURSIVE FirstFit(_, _, _)
FirstFit(new_pipes, k, c) ==
    IF k > Len(new_pipes) THEN Append(new_pipes, NewRawPipe(c))
    ELSE IF new_pipes[k].remaining >= c + H(KERF_MM)
    THEN [new_pipes EXCEPT ![k] = [@ EXCEPT !.cuts = Append(@, c),
                                            !.remaining = @ - (c + H(KERF_MM))]]
    ELSE FirstFit(new_pipes, k + 1, c)

\* run_multi_size_plan 174-191: the moved cuts packed, largest first
RECURSIVE Repack(_, _)
Repack(new_pipes, cs) ==
    IF cs = <<>> THEN new_pipes ELSE Repack(FirstFit(new_pipes, 1, Head(cs)), Tail(cs))

\* run_multi_size_plan 168-172: the last pipe once move_count cuts are taken off it
Shortened(last, move_count) ==
    LET cuts_sorted == SortedAsc(last.cuts)
        kept == SubSeq(cuts_sorted, move_count + 1, Len(cuts_sorted))
        last_used == IF kept # <<>> THEN SumSeq(kept) + Len(kept) * H(KERF_MM) ELSE 0
    IN  [last EXCEPT !.cuts = kept, !.remaining = last.capacity - last_used]

\* run_multi_size_plan 202-228: one pipe of the returned plan
OutPipe(p, i) ==
    LET num_cuts == Len(p.cuts)
        kerf_mm == num_cuts * H(KERF_MM)
    IN  [ pipe_number |-> i, pipe_label |-> IF p.is_leftover THEN "Leftover" ELSE "Raw pipe (3600 mm)",
          cuts |-> p.cuts, num_cuts |-> num_cuts, kerf_mm |-> kerf_mm,
          used |-> SumSeq(p.cuts) + kerf_mm, scrap |-> p.remaining,
          scrap_class |-> classify_scrap_mm(p.remaining),
          is_leftover |-> p.is_leftover, leftover_id |-> p.leftover_id ]

\* index 388-391: the ids of the leftovers that received a cut
RECURSIVE IdsToDelete(_)
IdsToDelete(out) ==
    IF out = <<>> THEN <<>>
    ELSE (IF Head(out).leftover_id # None /\ Head(out).num_cuts > 0
          THEN <<Head(out).leftover_id>> ELSE <<>>) \o IdsToDelete(Tail(out))

\* the remainders to insert, a remainder equal to the threshold left out
RECURSIVE ScrapToInsert_Strict(_)
ScrapToInsert_Strict(out) ==
    IF out = <<>> THEN <<>>
    ELSE LET p == Head(out)
             take == IF p.leftover_id # None /\ p.num_cuts > 0
                     THEN p.scrap > H(SCRAP_SAVE_THRESHOLD_MM)
                     ELSE p.leftover_id = None /\ p.scrap > H(SCRAP_SAVE_THRESHOLD_MM)
         IN  (IF take THEN <<p.scrap>> ELSE <<>>) \o ScrapToInsert_Strict(Tail(out))

\* index 388-395: the remainders to insert
RECURSIVE ScrapToInsert(_)
ScrapToInsert(out) ==
    IF out = <<>> THEN <<>>
    ELSE LET p == Head(out)
             take == IF p.leftover_id # None /\ p.num_cuts > 0
                     THEN p.scrap >= H(SCRAP_SAVE_THRESHOLD_MM)
                     ELSE p.leftover_id = None /\ p.scrap >= H(SCRAP_SAVE_THRESHOLD_MM)
         IN  (IF take THEN <<p.scrap>> ELSE <<>>) \o ScrapToInsert(Tail(out))

\* index's multi branch (369-383) or a direct call with the inventory read as index
\* does, then run_multi_size_plan 73-107
StartMulti(r) ==
    /\ pc[r] = "idle"
    /\ form[r].kind = "multi"
    /\ LET pairs == IF form[r].via = "index" THEN IndexPairs(form[r].requirements)
                    ELSE form[r].requirements
           flat == SortedDesc(Expand(pairs))
       IN  IF form[r].via = "index" /\ pairs = <<>>
           THEN /\ pc' = [pc EXCEPT ![r] = "done_nocall"]
                /\ m' = m
           ELSE \E inventory \in get_leftovers_sorted(db) :
                  IF flat = <<>>
                  THEN /\ pc' = [pc EXCEPT ![r] = "ms_apply"]
                       /\ m' = [m EXCEPT ![r] = [EmptyMulti EXCEPT !.inventory = inventory]]
                  ELSE /\ pc' = [pc EXCEPT ![r] = "ms_place"]
                       /\ m' = [m EXCEPT ![r] = [EmptyMulti EXCEPT !.inventory = inventory,
                                    !.flat = flat, !.pipes = SeedPipes(inventory)]]
    /\ UNCHANGED <<db, nextId, form, s>>

\* run_multi_size_plan 110-149: one turn of the placement loop
PlaceCut(r) ==
    /\ pc[r] = "ms_place"
    /\ LET f == m[r]
           cut == f.flat[f.fi + 1]
       IN  /\ m' = [m EXCEPT ![r] = [f EXCEPT !.pipes = PlaceOne(f.pipes, cut), !.fi = f.fi + 1]]
           /\ pc' = [pc EXCEPT ![r] = IF f.fi + 1 = Len(f.flat) THEN "ms_fixup" ELSE "ms_place"]
    /\ UNCHANGED <<db, nextId, form, s>>

\* run_multi_size_plan 153-192: the last-pipe fixup
Fixup(r) ==
    /\ pc[r] = "ms_fixup"
    /\ LET f == m[r]
           pipes == f.pipes
           entered == /\ pipes # <<>>
                      /\ Last(pipes).remaining > H(LAST_PIPE_SCRAP_MAX_MM)
                      /\ Last(pipes).cuts # <<>>
           move_count == IF entered THEN MoveCount(Last(pipes)) ELSE 0
           cuts_sorted == SortedAsc(Last(pipes).cuts)
           moved_cuts == SubSeq(cuts_sorted, 1, move_count)
           last == Shortened(Last(pipes), move_count)
           new_pipes == Repack(<<>>, Reverse(moved_cuts))
       IN  m' = [m EXCEPT ![r] = [f EXCEPT
                     !.move_count = move_count,
                     !.new_pipes = IF move_count > 0 THEN new_pipes ELSE <<>>,
                     !.pipes = IF move_count > 0
                               THEN SubSeq(pipes, 1, Len(pipes) - 1)
                                    \o (IF last.cuts # <<>> THEN <<last>> ELSE <<>>)
                                    \o new_pipes
                               ELSE pipes]]
    /\ pc' = [pc EXCEPT ![r] = "ms_build"]
    /\ UNCHANGED <<db, nextId, form, s>>

\* run_multi_size_plan 194-238: drop the empty raw pipes, build the returned plan
BuildOutput(r) ==
    /\ pc[r] = "ms_build"
    /\ LET f == m[r]
           pipes == SelectSeq(f.pipes, LAMBDA p : p.cuts # <<>> \/ p.is_leftover)
           out == [i \in 1..Len(pipes) |-> OutPipe(pipes[i], i)]
       IN  m' = [m EXCEPT ![r] = [f EXCEPT
                     !.pipes = pipes,
                     !.out = out,
                     !.total_pipes = Len(out),
                     !.total_used = SumSeq([i \in 1..Len(out) |-> out[i].used]),
                     !.total_scrap = SumSeq([i \in 1..Len(out) |-> out[i].scrap]),
                     !.total_kerf = SumSeq([i \in 1..Len(out) |-> out[i].kerf_mm]),
                     !.last_pipe_over_limit =
                         /\ out # <<>>
                         /\ Last(out).scrap > H(LAST_PIPE_SCRAP_MAX_MM)]]
    /\ pc' = [pc EXCEPT ![r] = "ms_apply"]
    /\ UNCHANGED <<db, nextId, form, s>>

\* index 385-396: queue the mutations of a plan with pipes, delete the used leftovers
ApplyDeletes(r) ==
    /\ pc[r] = "ms_apply"
    /\ LET f == m[r]
       IN  IF f.out # <<>>
           THEN /\ m' = [m EXCEPT ![r] = [f EXCEPT !.ids_to_delete = IdsToDelete(f.out),
                             !.scrap_to_insert = ScrapToInsert(f.out)]]
                /\ db' = delete_leftovers_batch(db, IdsToDelete(f.out))
                /\ pc' = [pc EXCEPT ![r] = "ms_insert"]
           ELSE /\ m' = m
                /\ db' = db
                /\ pc' = [pc EXCEPT ![r] = "done"]
    /\ UNCHANGED <<nextId, form, s>>

\* index 397: insert the queued remainders
ApplyInserts(r) ==
    /\ pc[r] = "ms_insert"
    /\ db' = insert_leftovers_batch(db, nextId, m[r].scrap_to_insert)
    /\ nextId' = nextId + Len(m[r].scrap_to_insert)
    /\ pc' = [pc EXCEPT ![r] = "done"]
    /\ UNCHANGED <<form, s, m>>

\* ----------------------------------------------------------------- what is submitted
NoForm ==
    [ kind |-> "none", via |-> "index", raw_length |-> 0, cut_length |-> 0,
      quantity_required |-> 0, requirements |-> <<>> ]

SingleForms(vias, raws, cuts, qtys) ==
    { [ kind |-> "single", via |-> v, raw_length |-> a, cut_length |-> c,
        quantity_required |-> q, requirements |-> <<>> ] :
        v \in vias, a \in raws, c \in cuts, q \in qtys }

MultiForms(vias, lists) ==
    { [ kind |-> "multi", via |-> v, raw_length |-> 0, cut_length |-> 0,
        quantity_required |-> 0, requirements |-> l ] : v \in vias, l \in lists }

\* requirement lists of at most two (length, quantity) entries
ReqLists(lengths, qtys) ==
    LET pairs == lengths \X qtys
    IN  {<<>>} \cup { <<p>> : p \in pairs } \cup { <<p, q>> : p \in pairs, q \in pairs }

\* submitted lengths, in thousandths of a millimetre: 0.004 rounds to 0, 1199.996 to 1200
RawLengths == { MM(2506), MM(150), 0 }
CutLengths == { MM(1200), MM(1400), 1199996, 4, 0 }
ReqLengths == { MM(4000), MM(3300), MM(3000), MM(1200), MM(200), 4, MM(0 - 5) }

Forms ==
    SingleForms({"index", "direct"}, RawLengths, CutLengths, 0..MaxQty)
    \cup MultiForms({"index", "direct"}, ReqLists(ReqLengths, 0..MaxQty))

\* the forms two concurrent requests submit
ConcForms ==
    SingleForms({"index"}, {MM(2506)}, {MM(1200)}, {1, 2})
    \cup MultiForms({"index"}, ReqLists({MM(1200)}, {1, 2}))

\* inventories earlier plans have left behind (every stored remainder is >= 100 mm)
Row(id, mm) == [id |-> id, length |-> H(mm)]
Inventories ==
    { {},
      { Row(1, 1303) },
      { Row(1, 2000), Row(2, 1302), Row(3, 150) },
      { Row(1, 1303), Row(2, 1303) } }

InitWith(forms) ==
    /\ db \in Inventories
    /\ nextId = Cardinality(db) + 1
    /\ form \in forms
    /\ pc = [r \in Requests |-> "idle"]
    /\ s = [r \in Requests |-> EmptySingle]
    /\ m = [r \in Requests |-> EmptyMulti]

\* one request at a time
Init == InitWith({ f \in [Requests -> Forms \cup {NoForm}] : f["r2"] = NoForm /\ f["r1"] # NoForm })

\* two requests in flight against the same inventory
InitConc == InitWith([Requests -> ConcForms])

Next ==
    \E r \in Requests :
        \/ StartSingle(r)
        \/ ReadLeftovers(r)
        \/ CutPiece(r)
        \/ CloseSource(r)
        \/ FinishSingle(r)
        \/ DeleteUsed(r)
        \/ InsertScrap(r)
        \/ ReturnSingle(r)
        \/ StartMulti(r)
        \/ PlaceCut(r)
        \/ Fixup(r)
        \/ BuildOutput(r)
        \/ ApplyDeletes(r)
        \/ ApplyInserts(r)

Spec == Init /\ [][Next]_vars

SpecConc == InitConc /\ [][Next]_vars

\* ----------------------------------------------------------------- properties
Multi(r) == form[r].kind = "multi"
Single(r) == form[r].kind = "single"

IsPrefix(a, b) == Len(a) <= Len(b) /\ SubSeq(b, 1, Len(a)) = a

Range(q) == { q[i] : i \in 1..Len(q) }

\* the placement loop of request r takes a turn in this step
Places(r) == pc[r] = "ms_place" /\ m'[r].fi = m[r].fi + 1

\* C1: a cut is added to a pipe only when the pipe's remaining length before the
\* addition (the standard raw length for a newly opened raw pipe) is >= cut + kerf,
\* and so no pipe ever has a negative remainder.
C1_CutAddedOnlyWhereItFits ==
    [][\A r \in Requests : Places(r) =>
        LET cut == m[r].flat[m[r].fi + 1]
            needed == cut + H(KERF_MM)
            before == m[r].pipes
            after == m'[r].pipes
        IN  /\ Len(after) = Len(before) =>
                  \A i \in 1..Len(before) :
                      after[i].cuts # before[i].cuts => before[i].remaining >= needed
            /\ Len(after) = Len(before) + 1 => Last(after).capacity >= needed
            /\ \A i \in 1..Len(after) : after[i].remaining >= 0]_vars

\* C2: when the placement loop leaves a last pipe with cuts and a remainder above the
\* last-pipe scrap limit, the fixup moves cuts off it, and when the fixup ends that
\* pipe holds no cuts or has a remainder within the limit.
C2_FixupBringsLastPipeWithinLimit ==
    [][\A r \in Requests :
        (/\ pc[r] = "ms_fixup" /\ pc'[r] = "ms_build"
         /\ m[r].pipes # <<>>
         /\ Last(m[r].pipes).cuts # <<>>
         /\ Last(m[r].pipes).remaining > H(LAST_PIPE_SCRAP_MAX_MM))
        => LET n == Len(m[r].pipes)
           IN  /\ m'[r].move_count > 0
               /\ \/ m'[r].move_count = Len(Last(m[r].pipes).cuts)
                  \/ m'[r].pipes[n].remaining <= H(LAST_PIPE_SCRAP_MAX_MM)]_vars

\* the plan of request r is built; the fixup moved cuts (its last pipe was then over
\* the limit) or moved none and left the pipes as the placement loop made them, the
\* last of them over the limit
LastOverLimitBeforeFixup(r) ==
    /\ Multi(r) /\ pc[r] \in {"ms_apply", "ms_insert", "done"} /\ m[r].out # <<>>
    /\ \/ m[r].move_count > 0
       \/ Last(m[r].pipes).remaining > H(LAST_PIPE_SCRAP_MAX_MM)

\* C3: on an input whose last pipe is over the scrap limit before the fixup, the plan
\* reports last_pipe_over_limit = false, unless the fixup moved cuts into new tail
\* pipes and the last of those is itself over the limit.
C3_FlagFalseUnlessRepackedTailOver ==
    \A r \in Requests : LastOverLimitBeforeFixup(r) =>
        \/ ~m[r].last_pipe_over_limit
        \/ /\ m[r].move_count > 0
           /\ m[r].new_pipes # <<>>
           /\ Last(m[r].new_pipes).remaining > H(LAST_PIPE_SCRAP_MAX_MM)

\* run_cutting_plan has returned to request r
Returned(r) == Single(r) /\ pc[r] = "done"

\* C4 as stated: every call with raw length > 0, cut length > 0 and quantity > 0
\* returns pieces_produced equal to the requested quantity.
C4_QuantityAlwaysMet ==
    \A r \in Requests :
        (/\ Returned(r)
         /\ form[r].raw_length > 0 /\ form[r].cut_length > 0 /\ form[r].quantity_required > 0)
        => s[r].pieces_produced = form[r].quantity_required

\* C4: a call whose rounded cut length is > 0, whose quantity is > 0 and whose rounded
\* raw length is >= the rounded cut length + kerf returns pieces_produced equal to the
\* requested quantity, whatever the inventory.
C4_QuantityMetWhenRawFitsACut ==
    \A r \in Requests :
        (/\ Returned(r)
         /\ Round2(form[r].cut_length) > 0 /\ form[r].quantity_required > 0
         /\ Round2(form[r].raw_length) >= needed_per_cut(Round2(form[r].cut_length)))
        => s[r].pieces_produced = form[r].quantity_required

\* a call met its quantity from a leftover and then from raw pipes
C4_Witness ==
    \E r \in Requests :
        /\ Returned(r)
        /\ s[r].pieces_produced = form[r].quantity_required
        /\ s[r].pieces_produced >= 3
        /\ s[r].used_leftover
        /\ Last(s[r].segments).source = "Raw pipe"

Conserved(p) == p.remaining = p.capacity - (SumSeq(p.cuts) + H(KERF_MM) * Len(p.cuts))

\* C6: in every state every pipe of run_multi_size_plan (seeded, filled, shortened or
\* repacked) has remaining = capacity - (sum(cuts) + kerf * count(cuts)), and every
\* segment of run_cutting_plan has remaining = source_length - pieces * (cut_length + kerf).
C6_Conservation ==
    \A r \in Requests :
        /\ \A i \in 1..Len(m[r].pipes) : Conserved(m[r].pipes[i])
        /\ \A i \in 1..Len(m[r].new_pipes) : Conserved(m[r].new_pipes[i])
        /\ \A i \in 1..Len(s[r].segments) :
              s[r].segments[i].remaining =
                  s[r].segments[i].source_length
                      - s[r].segments[i].pieces * (s[r].segments[i].cut_length + H(KERF_MM))

\* a plan with a leftover pipe that took a cut and a raw pipe that took two
C6_Witness ==
    \E r \in Requests :
        /\ Multi(r) /\ pc[r] = "ms_apply"
        /\ \E i, j \in 1..Len(m[r].pipes) :
              /\ m[r].pipes[i].is_leftover /\ Len(m[r].pipes[i].cuts) >= 1
              /\ ~m[r].pipes[j].is_leftover /\ Len(m[r].pipes[j].cuts) >= 2

\* the plan of run_cutting_plan is computed
PlanComputed(r) == Single(r) /\ pc[r] \in {"ss_delete", "ss_insert", "ss_return", "done"}

\* the leftovers of the snapshot that next_source reached and that fit a cut
TakenAsSource(r) ==
    { s[r].leftovers[i].id : i \in { k \in 1..s[r].leftover_index :
          s[r].leftovers[k].length >= needed_per_cut(s[r].cut_length) } }

\* C7: the ids run_cutting_plan deletes are exactly those of the leftovers it took as
\* a source, each of which supplied at least one piece; a leftover too short for a
\* cut or not reached is not among them and is still in the inventory at the end.
C7_DeletedAreExactlyTheUsedLeftovers ==
    \A r \in Requests : PlanComputed(r) =>
        LET f == s[r]
            used == Range(f.used_leftover_ids)
            fromLeftover == SelectSeq(f.segments, LAMBDA g : g.source = "Leftover")
        IN  /\ used = TakenAsSource(r)
            /\ Len(f.used_leftover_ids) = Cardinality(used)
            /\ Len(fromLeftover) = Len(f.used_leftover_ids)
            /\ \A i \in 1..Len(fromLeftover) : fromLeftover[i].pieces >= 1
            /\ \A i \in 1..Len(f.leftovers) :
                  (\/ f.leftovers[i].length < needed_per_cut(f.cut_length)
                   \/ i > f.leftover_index)
                  => f.leftovers[i].id \notin used
            /\ pc[r] = "done" =>
                  \A i \in 1..Len(f.leftovers) :
                      f.leftovers[i] \in db <=> f.leftovers[i].id \notin used

\* a call that used two leftovers, skipped one too short for a cut, and returned
C7_Witness ==
    \E r \in Requests :
        /\ Single(r) /\ pc[r] = "done"
        /\ Len(s[r].used_leftover_ids) >= 2
        /\ \E i \in 1..s[r].leftover_index :
              /\ s[r].leftovers[i].length < needed_per_cut(s[r].cut_length)
              /\ s[r].leftovers[i] \in db

\* C8: the remainders queued for insertion are exactly the remainders >= the save
\* threshold: of the recorded segments for run_cutting_plan, of the pipes that took a
\* cut or are raw for a multi-size plan.
C8_QueuedIffAtLeastThreshold ==
    \A r \in Requests :
        /\ LET kept == SelectSeq(s[r].segments,
                           LAMBDA g : g.remaining >= H(SCRAP_SAVE_THRESHOLD_MM))
           IN  s[r].scrap_to_save = [i \in 1..Len(kept) |-> kept[i].remaining]
        /\ (Multi(r) /\ pc[r] \in {"ms_insert", "done"}) =>
             LET kept == SelectSeq(m[r].out,
                             LAMBDA p : /\ p.num_cuts > 0 \/ ~p.is_leftover
                                        /\ p.scrap >= H(SCRAP_SAVE_THRESHOLD_MM))
             IN  m[r].scrap_to_insert = [i \in 1..Len(kept) |-> kept[i].scrap]

\* a multi-size plan queued a remainder equal to the threshold
C8_Witness ==
    \E r \in Requests :
        /\ Multi(r) /\ pc[r] = "done"
        /\ \E i \in 1..Len(m[r].out) :
              /\ m[r].out[i].num_cuts > 0
              /\ m[r].out[i].scrap = H(SCRAP_SAVE_THRESHOLD_MM)
        /\ H(SCRAP_SAVE_THRESHOLD_MM) \in Range(m[r].scrap_to_insert)

\* run_cutting_plan's cut length (as rounded) or quantity is not positive
EmptySingleInput(r) ==
    Single(r) /\ (Round2(form[r].cut_length) <= 0 \/ form[r].quantity_required <= 0)

\* every requirement's length (as rounded) or quantity is not positive, or there is none
EmptyMultiInput(r) ==
    /\ Multi(r)
    /\ \A i \in 1..Len(form[r].requirements) :
          Round2(form[r].requirements[i][1]) <= 0 \/ form[r].requirements[i][2] <= 0

\* C9: on an empty input no step of the request reads or changes the inventory, and
\* the plan stays the empty plan: no pieces, segments or suggestion, no pipes, totals 0,
\* last_pipe_over_limit false, nothing queued for the inventory.
C9_EmptyInputEmptyPlanNoMutation ==
    [][\A r \in Requests : (EmptySingleInput(r) \/ EmptyMultiInput(r)) =>
        /\ db' = db /\ nextId' = nextId
        /\ pc'[r] \in {"idle", "done", "done_nocall", "ms_apply"}
        /\ s'[r].leftovers = <<>> /\ s'[r].segments = <<>>
        /\ s'[r].pieces_produced = 0 /\ s'[r].suggested_raw = None
        /\ s'[r].used_leftover_ids = <<>> /\ s'[r].scrap_to_save = <<>>
        /\ m'[r].out = <<>> /\ m'[r].pipes = <<>>
        /\ m'[r].total_pipes = 0 /\ m'[r].total_used = 0
        /\ m'[r].total_scrap = 0 /\ m'[r].total_kerf = 0
        /\ ~m'[r].last_pipe_over_limit
        /\ m'[r].ids_to_delete = <<>> /\ m'[r].scrap_to_insert = <<>>]_vars

\* run_cutting_plan returned the empty plan for a quantity of 0 although the inventory
\* holds a leftover that fits the cut
C9_Witness ==
    \E r \in Requests :
        /\ Single(r) /\ pc[r] = "done"
        /\ form[r].quantity_required <= 0
        /\ \E row \in db : row.length >= needed_per_cut(Round2(form[r].cut_length))
        /\ Round2(form[r].cut_length) > 0

ApplyPhase == {"ss_delete", "ss_insert", "ms_apply", "ms_insert"}

\* C10: a planning call keeps the inventory it read for its whole run, whatever
\* happens to the table, and the table changes only in a step of a call that has
\* finished planning and is applying its deletions and insertions.
C10_ReadOnceApplyAfterPlanning ==
    [][\A r \in Requests :
        /\ pc[r] \notin {"idle", "ss_read"} =>
              /\ s'[r].leftovers = s[r].leftovers
              /\ m'[r].inventory = m[r].inventory
        /\ (db' # db /\ <<pc[r], s[r], m[r]>>' # <<pc[r], s[r], m[r]>>) =>
              /\ pc[r] \in ApplyPhase
              /\ s'[r].segments = s[r].segments
              /\ s'[r].used_leftover_ids = s[r].used_leftover_ids
              /\ s'[r].scrap_to_save = s[r].scrap_to_save
              /\ m'[r].pipes = m[r].pipes]_vars

\* the leftover ids a finished call deleted, the remainders it inserted
Consumed(r) == Range(s[r].used_leftover_ids) \cup Range(m[r].ids_to_delete)
Inserted(r) == Range(s[r].scrap_to_save) \cup Range(m[r].scrap_to_insert)

\* the rows a call read at its start
Snapshot(r) == Range(s[r].leftovers) \cup Range(m[r].inventory)

\* both calls cut from the same leftover record, and both inserted a remainder of it:
\* the table ends with two new rows for one consumed leftover
C10_Witness ==
    /\ pc["r1"] = "done" /\ pc["r2"] = "done"
    /\ \E row \in Snapshot("r1") \cap Snapshot("r2") :
          /\ row.id \in Consumed("r1") \cap Consumed("r2")
          /\ \E a, b \in db :
                /\ a.id # b.id
                /\ a \notin Snapshot("r1") /\ b \notin Snapshot("r2")
                /\ a.length \in Inserted("r1") /\ b.length \in Inserted("r2")
                /\ a.length < row.length /\ b.length < row.length

\* the pipes (by position) of a kind that can take a cut needing `needed`
Fitting(pipes, needed, leftover) ==
    { i \in 1..Len(pipes) : pipes[i].is_leftover = leftover /\ pipes[i].remaining >= needed }

\* taking `needed` off this remainder drops it from usable to not usable
DropsBelowUsable(remaining, needed) ==
    /\ remaining >= H(SCRAP_USABLE_MIN_MM)
    /\ remaining - needed < H(SCRAP_USABLE_MIN_MM)

\* C11: in a turn of the placement loop no cut goes into a raw pipe that already holds
\* a cut and whose remainder the cut would drop from >= 350 mm to below it; when no
\* leftover fits the cut and every raw pipe that fits it is rejected so (or none
\* fits), a new raw pipe is opened for the cut, its first, whatever remainder that
\* leaves; a leftover that fits takes the cut whatever it does to its remainder (the
\* fitting leftover with the least remainder).
C11_FutureUsabilityGuard ==
    [][\A r \in Requests : Places(r) =>
        LET cut == m[r].flat[m[r].fi + 1]
            needed == cut + H(KERF_MM)
            before == m[r].pipes
            after == m'[r].pipes
            n == Len(before)
            took == { i \in 1..n : after[i].cuts # before[i].cuts }
            lefts == Fitting(before, needed, TRUE)
            raws == Fitting(before, needed, FALSE)
            rejected == { i \in raws : before[i].cuts # <<>>
                                       /\ DropsBelowUsable(before[i].remaining, needed) }
            opened == /\ Len(after) = n + 1
                      /\ SubSeq(after, 1, n) = before
                      /\ ~after[n + 1].is_leftover
                      /\ after[n + 1].cuts = <<cut>>
                      /\ after[n + 1].remaining = H(STANDARD_RAW_LENGTH_MM) - needed
        IN  /\ \A i \in took :
                  ~(/\ ~before[i].is_leftover /\ before[i].cuts # <<>>
                    /\ before[i].remaining >= H(SCRAP_USABLE_MIN_MM)
                    /\ after[i].remaining < H(SCRAP_USABLE_MIN_MM))
            /\ (lefts = {} /\ raws = rejected) => opened
            /\ lefts # {} =>
                  /\ Len(after) = n
                  /\ \E i \in lefts :
                        /\ took = {i}
                        /\ after[i].cuts = Append(before[i].cuts, cut)
                        /\ \A j \in lefts : before[i].remaining <= before[j].remaining]_vars

\* the placement loop is over; a raw pipe took a second cut that left it usable, the
\* guard then kept the last cut out of it although it fits, and a later raw pipe was
\* opened for that cut
C11_Witness ==
    \E r \in Requests :
        /\ Multi(r) /\ pc[r] = "ms_fixup"
        /\ \E i, j \in 1..Len(m[r].pipes) :
              LET p == m[r].pipes[i]
                  q == m[r].pipes[j]
                  needed == Last(m[r].flat) + H(KERF_MM)
              IN  /\ i < j
                  /\ ~p.is_leftover /\ Len(p.cuts) >= 2
                  /\ p.remaining >= needed
                  /\ DropsBelowUsable(p.remaining, needed)
                  /\ ~q.is_leftover /\ q.cuts = <<Last(m[r].flat)>>
                  /\ j = Len(m[r].pipes)

\* the cut_requirements request r passes to run_multi_size_plan
CutRequirements(r) ==
    IF form[r].via = "index" THEN IndexPairs(form[r].requirements) ELSE form[r].requirements

\* how often x occurs in the sequence q
Count(x, q) == Cardinality({ i \in 1..Len(q) : q[i] = x })

\* how often the cut length x occurs over all the pipes
PlanCount(pipes, x) == SumSeq([i \in 1..Len(pipes) |-> Count(x, pipes[i].cuts)])

\* the cut lengths that occur in the pipes
PlanLengths(pipes) == UNION { Range(pipes[i].cuts) : i \in 1..Len(pipes) }

\* the copies of the length x (thousandths) the requirements ask for as submitted
StatedCount(reqs, x) ==
    SumSeq([i \in 1..Len(reqs) |->
              IF reqs[i][1] = x /\ reqs[i][1] > 0 /\ reqs[i][2] > 0 THEN reqs[i][2] ELSE 0])

\* the copies of the length x (hundredths) the requirements ask for once rounded
RoundedCount(reqs, x) ==
    SumSeq([i \in 1..Len(reqs) |->
              IF Round2(reqs[i][1]) = x /\ Round2(reqs[i][1]) > 0 /\ reqs[i][2] > 0
              THEN reqs[i][2] ELSE 0])

\* run_multi_size_plan has returned its plan to request r
ReturnedMulti(r) == Multi(r) /\ pc[r] \in {"ms_apply", "ms_insert", "done"}

\* C12 as stated: the multiset of cut lengths over the pipes of the returned plan is
\* the multiset of quantity copies of the length of each requirement with length > 0
\* and quantity > 0, the lengths taken as they are passed.
C12_CutsAreTheStatedRequirements ==
    \A r \in Requests : ReturnedMulti(r) =>
        LET reqs == CutRequirements(r)
            lengths == { reqs[i][1] : i \in 1..Len(reqs) }
                       \cup { c * 10 : c \in PlanLengths(m[r].out) }
        IN  \A x \in lengths :
                SumSeq([i \in 1..Len(m[r].out) |->
                          Cardinality({ k \in 1..Len(m[r].out[i].cuts) :
                                          m[r].out[i].cuts[k] * 10 = x })])
                    = StatedCount(reqs, x)

\* C12: no cut is lost or duplicated: with every passed length rounded to 2 decimals,
\* the multiset of cut lengths over the pipes is the multiset of quantity copies of
\* the rounded length of each requirement whose rounded length is > 0 and whose
\* quantity is > 0; so it is after the placement loop, after the last-pipe fixup,
\* after the empty raw pipes are dropped and in the returned plan, and while the loop
\* runs the pipes hold the cuts placed so far.
C12_NoCutLostOrDuplicated ==
    \A r \in Requests :
        LET reqs == CutRequirements(r)
            lengths == { Round2(reqs[i][1]) : i \in 1..Len(reqs) }
                       \cup PlanLengths(m[r].pipes) \cup PlanLengths(m[r].out)
        IN  /\ (Multi(r) /\ pc[r] = "ms_place") =>
                  \A x \in lengths :
                      PlanCount(m[r].pipes, x) = Count(x, SubSeq(m[r].flat, 1, m[r].fi))
            /\ ((Multi(r) /\ pc[r] \in {"ms_fixup", "ms_build"}) \/ ReturnedMulti(r)) =>
                  \A x \in lengths : PlanCount(m[r].pipes, x) = RoundedCount(reqs, x)
            /\ ReturnedMulti(r) =>
                  \A x \in lengths : PlanCount(m[r].out, x) = RoundedCount(reqs, x)

\* a plan returned for two requirements: one whose length rounds to 0 and is left
\* out, one whose three copies are spread over more than one pipe
C12_Witness ==
    \E r \in Requests :
        /\ ReturnedMulti(r) /\ pc[r] = "done"
        /\ \E i, j \in 1..Len(CutRequirements(r)) :
              LET a == CutRequirements(r)[i]
                  b == CutRequirements(r)[j]
              IN  /\ a[1] > 0 /\ Round2(a[1]) = 0 /\ a[2] > 0
                  /\ Round2(b[1]) > 0 /\ b[2] >= 3
                  /\ PlanCount(m[r].out, Round2(b[1])) = b[2]
                  /\ \E k \in 1..Len(m[r].out) :
                        /\ 0 < Count(Round2(b[1]), m[r].out[k].cuts)
                        /\ Count(Round2(b[1]), m[r].out[k].cuts) < b[2]

====
